---------------------------- MODULE Spec2Model ----------------------------
(***************************************************************************)
(* Model of Read.py: a mesh text file is parsed into nodes and elements,   *)
(* every .ply cluster of a folder is wrapped in a KDTree, each element is  *)
(* handed to a process pool that computes its centre and the nearest       *)
(* cluster, and the gathered results are filtered and printed.             *)
(*                                                                         *)
(* Numbers.  Coordinates are integers; the node coordinates of the inputs  *)
(* are multiples of 4, so the mean of four of them is an exact integer.    *)
(* KDTree.query returns the Euclidean distance; the model keeps its        *)
(* square, which orders and ties distances exactly as the distance does.   *)
(***************************************************************************)
EXTENDS Integers, Sequences, FiniteSets, TLC

\* ------------------------------------------------------------------ bounds
MaxElements == 2
MaxClusters == 2
NumWorkers == 2

\* ------------------------------------------------------- program constants
\* line[10] is the element id, line[11:19] the eight raw node ids
ElementIdField == 10
NodeIdsFrom == 11
NodeIdsTo == 19
\* find_element_center accepts exactly this many node ids
TetraNodes == 4

VARIABLES
    pc,            \* where main() is
    exitStatus,    \* the interpreter's exit status once pc = "exited"
    fault,         \* the fatal condition the run met, "none" if none
    num_nodes, num_elements, nodes, elements,   \* read_mesh_file's result
    all_vertices,  \* read_ply_vertices' result
    num_clusters,
    kd_trees,      \* one tree or None per cluster
    treesBuilt,    \* line 135 has run
    dispatched,    \* pool.map has been called
    tasks,         \* the pool's queue: positions of elements not yet taken
    cur,           \* worker -> position of the element it processes, 0 if idle
    slots,         \* position -> outcome of process_element for that element
    results,       \* main's results list
    stdout,        \* lines printed, <<kind, a, b>>
    stderr         \* tracebacks of uncaught exceptions

vars == <<pc, exitStatus, fault, num_nodes, num_elements, nodes, elements,
          all_vertices, num_clusters, kd_trees, treesBuilt, dispatched,
          tasks, cur, slots, results, stdout, stderr>>

Workers == 1..NumWorkers

\* ---------------------------------------------------------------- helpers
SeqsUpTo(S, n) == UNION {[1..k -> S] : k \in 0..n}

Range(s) == {s[k] : k \in DOMAIN s}

\* s[a:b] of Python, a and b 0-based, b exclusive, both clipped to the length
Slice(s, a, b) ==
    LET hi == IF b < Len(s) THEN b ELSE Len(s)
    IN  IF a >= hi THEN <<>> ELSE [k \in 1..(hi - a) |-> s[a + k]]

\* list(dict.fromkeys(s)): the first occurrence of each value, in order
RECURSIVE Dedup(_)
Dedup(s) ==
    IF s = <<>> THEN <<>>
    ELSE LET front == Dedup(SubSeq(s, 1, Len(s) - 1))
             last == s[Len(s)]
         IN  IF last \in Range(front) THEN front ELSE Append(front, last)

\* ------------------------------------------------------------- mesh parser
\* file.readline().strip().split(): the fields of line k, [] at end of file
ReadLine(lines, k) == IF k <= Len(lines) THEN lines[k] ELSE <<>>

\* line 19: two names unpacked from the header's fields
HeaderExc(line) == IF Len(line) = 2 THEN "none" ELSE "ValueError"

\* lines 24-25: line[0] must exist, line[1:4] must unpack into x, y, z
NodeLineExc(line) ==
    IF Len(line) = 0 THEN "IndexError"
    ELSE IF Len(Slice(line, 1, 4)) # 3 THEN "ValueError"
    ELSE "none"

ParseNode(line) == <<line[1]>> \o Slice(line, 1, 4)

\* line 33: line[10] must exist; the slice of line 34 never fails
ElementLineExc(line) ==
    IF Len(line) <= ElementIdField THEN "IndexError" ELSE "none"

ParseElement(line) ==
    <<line[ElementIdField + 1], Dedup(Slice(line, NodeIdsFrom, NodeIdsTo))>>

FirstExc(excs) ==
    IF \A k \in DOMAIN excs : excs[k] = "none" THEN "none"
    ELSE LET k == CHOOSE j \in DOMAIN excs :
                     /\ excs[j] # "none"
                     /\ \A h \in DOMAIN excs : h < j => excs[h] = "none"
         IN  excs[k]

Parsed(exc, n, m, ns, es) ==
    [exc |-> exc, num_nodes |-> n, num_elements |-> m, nodes |-> ns, elements |-> es]

\* read_mesh_file on a file that opened: the exception it raises ("none" if
\* it returns) and the tuple it returns
read_mesh_file(lines) ==
    LET header == ReadLine(lines, 1)
    IN  IF HeaderExc(header) # "none"
        THEN Parsed(HeaderExc(header), 0, 0, <<>>, <<>>)
        ELSE
        LET n == header[1]
            m == header[2]
            nodeLines == [k \in 1..n |-> ReadLine(lines, 1 + k)]
            nodeExc == FirstExc([k \in 1..n |-> NodeLineExc(nodeLines[k])])
            \* line 28 reads line n + 2 and drops it
            elemLines == [k \in 1..m |-> ReadLine(lines, n + 2 + k)]
            elemExc == FirstExc([k \in 1..m |-> ElementLineExc(elemLines[k])])
        IN  IF nodeExc # "none" THEN Parsed(nodeExc, 0, 0, <<>>, <<>>)
            ELSE IF elemExc # "none" THEN Parsed(elemExc, 0, 0, <<>>, <<>>)
            ELSE Parsed("none", n, m,
                        [k \in 1..n |-> ParseNode(nodeLines[k])],
                        [k \in 1..m |-> ParseElement(elemLines[k])])

\* -------------------------------------------------------- centre of element
\* nodes[j] of Python for a 0-based j: negative j counts from the end
PyIndexOK(seq, j) == -Len(seq) <= j /\ j < Len(seq)

PyIndex(seq, j) == IF j >= 0 THEN seq[j + 1] ELSE seq[Len(seq) + j + 1]

\* np.mean(points, axis=0) of four points
Mean4(points) ==
    [d \in 1..3 |->
        (points[1][d] + points[2][d] + points[3][d] + points[4][d]) \div TetraNodes]

\* find_element_center: the exception raised ("none" if it returns) and the
\* centre returned
find_element_center(element, ns) ==
    LET node_ids == element[2]
    IN  IF Len(node_ids) # TetraNodes
        THEN [exc |-> "ValueError", center |-> <<>>]
        ELSE IF \E k \in 1..Len(node_ids) : ~PyIndexOK(ns, node_ids[k] - 1)
        THEN [exc |-> "IndexError", center |-> <<>>]
        ELSE [exc |-> "none",
              center |-> Mean4([k \in 1..TetraNodes |->
                                   Slice(PyIndex(ns, node_ids[k] - 1), 1, 4)])]

\* ------------------------------------------------------------ cluster index
Absent == [absent |-> TRUE, pts |-> {}]

\* line 135 as it would be if empty clusters were filtered out of the list
BuildKDTreesDropEmpty(vertices) ==
    LET kept == SelectSeq(vertices, LAMBDA v : Cardinality(v) > 0)
    IN  [k \in 1..Len(kept) |-> [absent |-> FALSE, pts |-> kept[k]]]

\* line 135: a KDTree over the vertices, None for an empty cluster
BuildKDTrees(vertices) ==
    [k \in 1..Len(vertices) |->
        IF Cardinality(vertices[k]) > 0
        THEN [absent |-> FALSE, pts |-> vertices[k]]
        ELSE Absent]

SqDist(p, q) ==
    (p[1] - q[1]) * (p[1] - q[1]) + (p[2] - q[2]) * (p[2] - q[2])
        + (p[3] - q[3]) * (p[3] - q[3])

\* tree.query(center, k=1)[0]: the distance to the nearest point of the tree
Query(tree, center) ==
    LET ds == {SqDist(center, p) : p \in tree.pts}
    IN  CHOOSE d \in ds : \A e \in ds : d <= e

\* ---------------------------------------------------------- process_element
Infinity == [inf |-> TRUE, v |-> 0]

\* line 100 as it would be with <= : the last of several equal distances wins
CloserOrEqual(dist, min_dist) == min_dist.inf \/ dist <= min_dist.v

\* line 100 as it would be if it compared with the initial float('inf')
CloserThanInf(dist, min_dist) == TRUE

\* line 100: dist < min_dist
Closer(dist, min_dist) == min_dist.inf \/ dist < min_dist.v

\* line 102: the number recorded for the tree at 0-based position cluster_idx
ClusterNumber(cluster_idx) == cluster_idx + 1

\* lines 96-102, from 0-based position cluster_idx on
RECURSIVE ClosestFrom(_, _, _, _, _)
ClosestFrom(center, trees, cluster_idx, min_dist, closest_cluster) ==
    IF cluster_idx >= Len(trees) THEN closest_cluster
    ELSE LET tree == trees[cluster_idx + 1]
         IN  IF tree.absent
             THEN ClosestFrom(center, trees, cluster_idx + 1, min_dist, closest_cluster)
             ELSE LET dist == Query(tree, center)
                  IN  IF Closer(dist, min_dist)
                      THEN ClosestFrom(center, trees, cluster_idx + 1,
                                       [inf |-> FALSE, v |-> dist],
                                       ClusterNumber(cluster_idx))
                      ELSE ClosestFrom(center, trees, cluster_idx + 1,
                                       min_dist, closest_cluster)

\* process_element as it would be without the try / except of lines 88-92
process_element_uncaught(element, ns, trees) ==
    LET c == find_element_center(element, ns)
    IN  IF c.exc # "none"
        THEN [exc |-> c.exc, ret |-> <<>>, diag |-> FALSE, center |-> <<>>]
        ELSE LET closest_cluster == ClosestFrom(c.center, trees, 0, Infinity, -1)
             IN  [exc |-> "none",
                  ret |-> IF closest_cluster # -1
                          THEN <<element[1], closest_cluster>> ELSE <<>>,
                  diag |-> FALSE,
                  center |-> c.center]

\* process_element as it would be if line 104 returned the pair always
process_element_keeps_sentinel(element, ns, trees) ==
    LET c == find_element_center(element, ns)
    IN  IF c.exc = "ValueError"
        THEN [exc |-> "none", ret |-> <<>>, diag |-> TRUE, center |-> <<>>]
        ELSE IF c.exc # "none"
        THEN [exc |-> c.exc, ret |-> <<>>, diag |-> FALSE, center |-> <<>>]
        ELSE [exc |-> "none",
              ret |-> <<element[1], ClosestFrom(c.center, trees, 0, Infinity, -1)>>,
              diag |-> FALSE,
              center |-> c.center]

\* process_element: exc is the exception that leaves it ("none" if it
\* returns), ret the value returned (<<>> for None), diag whether the
\* diagnostic of line 91 was printed, center the centre it computed
process_element(element, ns, trees) ==
    LET c == find_element_center(element, ns)
    IN  IF c.exc = "ValueError"
        THEN [exc |-> "none", ret |-> <<>>, diag |-> TRUE, center |-> <<>>]
        ELSE IF c.exc # "none"
        THEN [exc |-> c.exc, ret |-> <<>>, diag |-> FALSE, center |-> <<>>]
        ELSE LET closest_cluster == ClosestFrom(c.center, trees, 0, Infinity, -1)
             IN  [exc |-> "none",
                  ret |-> IF closest_cluster # -1
                          THEN <<element[1], closest_cluster>> ELSE <<>>,
                  diag |-> FALSE,
                  center |-> c.center]


\* ------------------------------------------------------------------ inputs
\* node lines "id x y z" whose ids are their 1-based positions
NodeLinesInOrder ==
    << <<1, 0, 0, 0>>, <<2, 8, 0, 0>>, <<3, 0, 8, 0>>, <<4, 0, 0, 8>>, <<5, 8, 8, 8>> >>

\* the same coordinates, the ids of the last two lines exchanged
NodeLinesOutOfOrder ==
    << <<1, 0, 0, 0>>, <<2, 8, 0, 0>>, <<3, 0, 8, 0>>, <<5, 0, 0, 8>>, <<4, 8, 8, 8>> >>

\* an element line: ten leading fields, the element id, eight raw node ids
ElementLine(element_id, raw) ==
    [k \in 1..ElementIdField |-> 0] \o <<element_id>> \o raw

ElementLines ==
    { ElementLine(21, <<1, 1, 2, 2, 3, 3, 4, 4>>),    \* four ids
      ElementLine(22, <<5, 5, 4, 4, 3, 3, 2, 2>>),    \* four ids
      ElementLine(23, <<1, 1, 2, 2, 3, 3, 3, 3>>),    \* three ids
      ElementLine(24, <<1, 2, 3, 4, 5, 5, 5, 5>>),    \* five ids
      ElementLine(25, <<0, 0, -1, -1, 1, 1, 2, 2>>),  \* ids 0 and -1
      ElementLine(26, <<1, 1, 2, 2, 3, 3, 6, 6>>) }   \* an id above N

MeshText(nodeLines, elementLines) ==
    << <<Len(nodeLines), Len(elementLines)>> >> \o nodeLines \o << <<>> >> \o elementLines

MeshFile(exists, readable, lines) ==
    [exists |-> exists, readable |-> readable, lines |-> lines]

WellFormedMeshFiles(nodeLines) ==
    {MeshFile(TRUE, TRUE, MeshText(nodeLines, e)) :
        e \in SeqsUpTo(ElementLines, MaxElements)}

\* a header of one field, and a header that declares one node too many
BadHeaderText == << <<5>> >> \o NodeLinesInOrder \o << <<>> >>
BadCountText == << <<6, 0>> >> \o NodeLinesInOrder \o << <<>> >>

\* the mesh files of a run: node ids in file order, or a file that is
\* missing, unreadable or malformed
MeshFiles ==
    WellFormedMeshFiles(NodeLinesInOrder)
        \cup {MeshFile(FALSE, FALSE, <<>>), MeshFile(TRUE, FALSE, <<>>),
              MeshFile(TRUE, TRUE, BadHeaderText), MeshFile(TRUE, TRUE, BadCountText)}

\* mesh files whose node ids need not be their positions
MeshFilesAnyIds ==
    WellFormedMeshFiles(NodeLinesInOrder) \cup WellFormedMeshFiles(NodeLinesOutOfOrder)

\* the vertices of one .ply file
ClusterSets == { {}, {<<0, 0, 0>>}, {<<4, 4, 4>>, <<8, 8, 8>>} }

Folder(exists, plys) == [exists |-> exists, plys |-> plys]

Folders ==
    {Folder(FALSE, <<>>)}
        \cup {Folder(TRUE, p) : p \in SeqsUpTo(ClusterSets, MaxClusters)}

\* -------------------------------------------------------------------- main
Line(kind, a, b) == <<kind, a, b>>

Idle == [w \in Workers |-> 0]

Pending == [state |-> "pending", ret |-> <<>>, center |-> <<>>]

Init ==
    /\ pc = "start"
    /\ exitStatus = 0
    /\ fault = "none"
    /\ num_nodes = 0
    /\ num_elements = 0
    /\ nodes = <<>>
    /\ elements = <<>>
    /\ all_vertices = <<>>
    /\ num_clusters = 0
    /\ kd_trees = <<>>
    /\ treesBuilt = FALSE
    /\ dispatched = FALSE
    /\ tasks = <<>>
    /\ cur = Idle
    /\ slots = <<>>
    /\ results = <<>>
    /\ stdout = <<>>
    /\ stderr = <<>>

\* main as it would end if it left through sys.exit(1)
ReturnFailure ==
    /\ pc' = "exited"
    /\ exitStatus' = 1

\* main returns at lines 120, 129, 132 or falls off its end: exit status 0
Return ==
    /\ pc' = "exited"
    /\ exitStatus' = 0

\* an exception no except clause of main catches: traceback, exit status 1
Uncaught(exc) ==
    /\ pc' = "exited"
    /\ exitStatus' = 1
    /\ stderr' = Append(stderr, exc)

\* lines 114-120: read_mesh_file inside try / except FileNotFoundError
ReadMeshFrom(files) ==
    /\ pc = "start"
    /\ \E f \in files :
        LET r == read_mesh_file(f.lines)
        IN  IF ~f.exists
            THEN /\ fault' = "mesh_missing"
                 /\ stdout' = Append(stdout, Line("error", 0, 0))
                 /\ Return
                 /\ UNCHANGED <<num_nodes, num_elements, nodes, elements, stderr>>
            ELSE IF ~f.readable
            THEN /\ fault' = "mesh_unreadable"
                 /\ Uncaught("PermissionError")
                 /\ UNCHANGED <<num_nodes, num_elements, nodes, elements, stdout>>
            ELSE IF r.exc # "none"
            THEN /\ fault' = "mesh_malformed"
                 /\ Uncaught(r.exc)
                 /\ UNCHANGED <<num_nodes, num_elements, nodes, elements, stdout>>
            ELSE /\ num_nodes' = r.num_nodes
                 /\ num_elements' = r.num_elements
                 /\ nodes' = r.nodes
                 /\ elements' = r.elements
                 /\ stdout' = stdout \o <<Line("num_nodes", r.num_nodes, 0),
                                          Line("num_elements", r.num_elements, 0)>>
                 /\ pc' = "mesh_read"
                 /\ UNCHANGED <<exitStatus, fault, stderr>>
    /\ UNCHANGED <<all_vertices, num_clusters, kd_trees, treesBuilt, dispatched,
                   tasks, cur, slots, results>>

\* lines 123-132 as they would be without the early return of lines 127-129
ReadPlyNoEarlyReturn ==
    /\ pc = "mesh_read"
    /\ \E d \in Folders :
        IF ~d.exists
        THEN /\ fault' = "folder_missing"
             /\ stdout' = Append(stdout, Line("error", 0, 0))
             /\ Return
             /\ UNCHANGED <<all_vertices, num_clusters>>
        ELSE /\ all_vertices' = d.plys
             /\ num_clusters' = Len(d.plys)
             /\ stdout' = Append(stdout, Line("num_clusters", Len(d.plys), 0))
             /\ pc' = "ply_read"
             /\ UNCHANGED <<exitStatus, fault>>
    /\ UNCHANGED <<num_nodes, num_elements, nodes, elements, kd_trees, treesBuilt,
                   dispatched, tasks, cur, slots, results, stderr>>

\* lines 123-132: read_ply_vertices inside try / except FileNotFoundError
ReadPly ==
    /\ pc = "mesh_read"
    /\ \E d \in Folders :
        IF ~d.exists
        THEN /\ fault' = "folder_missing"
             /\ stdout' = Append(stdout, Line("error", 0, 0))
             /\ Return
             /\ UNCHANGED <<all_vertices, num_clusters>>
        ELSE /\ all_vertices' = d.plys
             /\ num_clusters' = Len(d.plys)
             /\ IF Len(d.plys) = 0
                THEN /\ stdout' = stdout \o <<Line("num_clusters", 0, 0),
                                              Line("no_ply", 0, 0)>>
                     /\ Return
                ELSE /\ stdout' = Append(stdout, Line("num_clusters", Len(d.plys), 0))
                     /\ pc' = "ply_read"
                     /\ UNCHANGED exitStatus
             /\ UNCHANGED fault
    /\ UNCHANGED <<num_nodes, num_elements, nodes, elements, kd_trees, treesBuilt,
                   dispatched, tasks, cur, slots, results, stderr>>

\* line 135
BuildTrees ==
    /\ pc = "ply_read"
    /\ kd_trees' = BuildKDTrees(all_vertices)
    /\ treesBuilt' = TRUE
    /\ pc' = "trees_built"
    /\ UNCHANGED <<exitStatus, fault, num_nodes, num_elements, nodes, elements,
                   all_vertices, num_clusters, dispatched, tasks, cur, slots,
                   results, stdout, stderr>>

\* lines 138-139: pool.map is called; one task per element, in list order
Dispatch ==
    /\ pc = "trees_built"
    /\ tasks' = [k \in 1..Len(elements) |-> k]
    /\ slots' = [k \in 1..Len(elements) |-> Pending]
    /\ dispatched' = TRUE
    /\ pc' = "mapping"
    /\ UNCHANGED <<exitStatus, fault, num_nodes, num_elements, nodes, elements,
                   all_vertices, num_clusters, kd_trees, treesBuilt, cur,
                   results, stdout, stderr>>

\* an idle worker takes the next task of the queue
TakeTask(w) ==
    /\ pc = "mapping"
    /\ cur[w] = 0
    /\ tasks # <<>>
    /\ cur' = [cur EXCEPT ![w] = Head(tasks)]
    /\ tasks' = Tail(tasks)
    /\ UNCHANGED <<pc, exitStatus, fault, num_nodes, num_elements, nodes, elements,
                   all_vertices, num_clusters, kd_trees, treesBuilt, dispatched,
                   slots, results, stdout, stderr>>

\* the outcome of one task, as the pool stores it at the task's position
Outcome(r) ==
    [state |-> IF r.exc = "none" THEN "returned" ELSE "raised",
     ret |-> r.ret, center |-> r.center]

\* a worker's step as it would be if outcomes were kept in order of arrival
FinishTaskInArrivalOrder(w) ==
    /\ pc = "mapping"
    /\ cur[w] # 0
    /\ LET i == cur[w]
           r == process_element(elements[i], nodes, kd_trees)
           free == CHOOSE k \in DOMAIN slots :
                       /\ slots[k].state = "pending"
                       /\ \A j \in DOMAIN slots : j < k => slots[j].state # "pending"
       IN  /\ slots' = [slots EXCEPT ![free] = Outcome(r)]
           /\ stdout' = IF r.diag
                        THEN Append(stdout, Line("diag", i, elements[i][1]))
                        ELSE stdout
    /\ cur' = [cur EXCEPT ![w] = 0]
    /\ UNCHANGED <<pc, exitStatus, fault, num_nodes, num_elements, nodes, elements,
                   all_vertices, num_clusters, kd_trees, treesBuilt, dispatched,
                   tasks, results, stderr>>

\* a worker runs process_element on its element and hands the outcome back
FinishTask(w) ==
    /\ pc = "mapping"
    /\ cur[w] # 0
    /\ LET i == cur[w]
           r == process_element(elements[i], nodes, kd_trees)
       IN  /\ slots' = [slots EXCEPT ![i] = Outcome(r)]
           /\ stdout' = IF r.diag
                        THEN Append(stdout, Line("diag", i, elements[i][1]))
                        ELSE stdout
    /\ cur' = [cur EXCEPT ![w] = 0]
    /\ UNCHANGED <<pc, exitStatus, fault, num_nodes, num_elements, nodes, elements,
                   all_vertices, num_clusters, kd_trees, treesBuilt, dispatched,
                   tasks, results, stderr>>

AllTasksDone == \A k \in DOMAIN slots : slots[k].state # "pending"

\* line 139: pool.map returns the outcomes in submission order once every
\* task has ended, or re-raises the exception of a task
Gather ==
    /\ pc = "mapping"
    /\ AllTasksDone
    /\ IF \E k \in DOMAIN slots : slots[k].state = "raised"
       THEN /\ Uncaught("IndexError")
            /\ UNCHANGED results
       ELSE /\ results' = [k \in DOMAIN slots |-> slots[k].ret]
            /\ pc' = "gathered"
            /\ UNCHANGED <<exitStatus, stderr>>
    /\ UNCHANGED <<fault, num_nodes, num_elements, nodes, elements, all_vertices,
                   num_clusters, kd_trees, treesBuilt, dispatched, tasks, cur,
                   slots, stdout>>

\* line 142: [r for r in results if r is not None]
NotNone(r) == r # <<>>

DropNone(rs) == SelectSeq(rs, NotNone)

\* lines 142-145: filter, print the heading and one line per result
Report ==
    /\ pc = "gathered"
    /\ results' = DropNone(results)
    /\ stdout' = Append(stdout, Line("heading", 0, 0))
                    \o [k \in 1..Len(DropNone(results)) |->
                           Line("result", DropNone(results)[k][1], DropNone(results)[k][2])]
    /\ Return
    /\ UNCHANGED <<fault, num_nodes, num_elements, nodes, elements, all_vertices,
                   num_clusters, kd_trees, treesBuilt, dispatched, tasks, cur,
                   slots, stderr>>

ReadMesh == ReadMeshFrom(MeshFiles)

ReadMeshAnyIds == ReadMeshFrom(MeshFilesAnyIds)

Pipeline ==
    \/ ReadPly
    \/ ReadPly
    \/ BuildTrees
    \/ Dispatch
    \/ \E w \in Workers : TakeTask(w)
    \/ \E w \in Workers : FinishTask(w)
    \/ Gather
    \/ Report

Next == ReadMesh \/ Pipeline

Spec == Init /\ [][Next]_vars

\* the same program on mesh files whose node ids need not be their positions
NextAnyIds == ReadMeshAnyIds \/ Pipeline

SpecAnyIds == Init /\ [][NextAnyIds]_vars

TypeOK ==
    /\ pc \in {"start", "mesh_read", "ply_read", "trees_built", "mapping",
               "gathered", "exited"}
    /\ exitStatus \in {0, 1}


\* ------------------------------------------------------------ vocabulary
\* the run printed its list of results (main reached line 143)
Reported == \E k \in DOMAIN stdout : stdout[k][1] = "heading"

\* positions, in the discovered list, of the clusters that hold a point
NonEmptyClusters == {k \in 1..Len(all_vertices) : all_vertices[k] # {}}

\* squared distance from a point to the nearest point of cluster k
ClusterDist(k, center) ==
    LET ds == {SqDist(center, p) : p \in all_vertices[k]}
    IN  CHOOSE d \in ds : \A e \in ds : d <= e

HasFourIds(i) == Len(elements[i][2]) = TetraNodes

\* the task of element i returned an assignment
Assigned(i) == slots[i].state = "returned" /\ slots[i].ret # <<>>

\* the first position, among the non-empty clusters, of minimum distance
WinnerPosition(center) ==
    CHOOSE k \in NonEmptyClusters :
        /\ \A j \in NonEmptyClusters : ClusterDist(k, center) <= ClusterDist(j, center)
        /\ \A j \in NonEmptyClusters :
              ClusterDist(j, center) = ClusterDist(k, center) => k <= j

\* diagnostics printed for the element at position i
DiagCount(i) ==
    Cardinality({k \in DOMAIN stdout : stdout[k][1] = "diag" /\ stdout[k][2] = i})

\* the (element_id, cluster_id) lines printed after the heading
PrintedResults ==
    LET lines == SelectSeq(stdout, LAMBDA l : l[1] = "result")
    IN  [k \in 1..Len(lines) |-> <<lines[k][2], lines[k][3]>>]

\* what process_element returns for each element, one after the other
SequentialReturns(es) ==
    [k \in 1..Len(es) |-> process_element(es[k], nodes, kd_trees).ret]

\* ------------------------------------------------------------------ C1
\* C1: an element assigned to cluster c has its centre at least as near to
\* cluster c as to every other non-empty cluster.
C1_NearestCluster ==
    \A i \in DOMAIN slots :
        Assigned(i) =>
            LET c == slots[i].ret[2]
                center == slots[i].center
            IN  /\ c \in NonEmptyClusters
                /\ \A k \in NonEmptyClusters :
                      ClusterDist(c, center) <= ClusterDist(k, center)

\* an element was assigned to a second cluster strictly nearer than the first
C1_Witness ==
    /\ Reported
    /\ \E i \in DOMAIN slots :
          /\ Assigned(i)
          /\ slots[i].ret[2] > 1
          /\ \E k \in NonEmptyClusters :
                /\ k < slots[i].ret[2]
                /\ ClusterDist(k, slots[i].center)
                      > ClusterDist(slots[i].ret[2], slots[i].center)

\* ------------------------------------------------------------------ C2
\* C2: when several non-empty clusters are at the same distance as the
\* assigned one, the assigned one is the first of them in list order.
C2_FirstWinsTie ==
    \A i \in DOMAIN slots :
        Assigned(i) =>
            \A k \in NonEmptyClusters :
                ClusterDist(k, slots[i].center)
                        = ClusterDist(slots[i].ret[2], slots[i].center)
                    => slots[i].ret[2] <= k

\* an element was assigned while a later cluster was at the same distance
C2_Witness ==
    /\ Reported
    /\ \E i \in DOMAIN slots :
          /\ Assigned(i)
          /\ \E k \in NonEmptyClusters :
                /\ k > slots[i].ret[2]
                /\ ClusterDist(k, slots[i].center)
                      = ClusterDist(slots[i].ret[2], slots[i].center)

\* ------------------------------------------------------------------ C3
\* C3: whatever the order in which workers took and finished tasks, the
\* results list and the printed lines are the non-None returns of
\* process_element over the elements in file order.
C3_OutputInSubmissionOrder ==
    Reported =>
        /\ results = DropNone(SequentialReturns(elements))
        /\ PrintedResults = results

\* a run printed two different results
C3_Witness ==
    /\ Reported
    /\ Len(results) >= 2
    /\ results[1] # results[2]

\* ------------------------------------------------------------------ C4
\* C4 as claimed: the reported cluster_id counts the winning cluster among
\* the non-empty clusters only.
C4_OrdinalAmongNonEmpty ==
    \A i \in DOMAIN slots :
        Assigned(i) =>
            slots[i].ret[2]
                = Cardinality({k \in NonEmptyClusters :
                                  k <= WinnerPosition(slots[i].center)})

\* C4 amended: the reported cluster_id is the 1-based position of the
\* winning cluster in the whole discovered list, empty clusters counted.
C4_PositionAmongAll ==
    \A i \in DOMAIN slots :
        Assigned(i) => slots[i].ret[2] = WinnerPosition(slots[i].center)

\* an element was assigned to a cluster that an empty cluster precedes
C4_Witness ==
    /\ Reported
    /\ \E i \in DOMAIN slots :
          /\ Assigned(i)
          /\ \E k \in 1..Len(all_vertices) :
                k < slots[i].ret[2] /\ all_vertices[k] = {}

\* ------------------------------------------------------------------ C5
\* C5: no returned, gathered or printed assignment names an empty cluster,
\* and when every cluster is empty nothing is assigned.
C5_NeverAnEmptyCluster ==
    /\ \A i \in DOMAIN slots :
          slots[i].ret # <<>> => slots[i].ret[2] \in NonEmptyClusters
    /\ \A k \in DOMAIN results :
          results[k] # <<>> => results[k][2] \in NonEmptyClusters
    /\ \A k \in DOMAIN PrintedResults : PrintedResults[k][2] \in NonEmptyClusters
    /\ NonEmptyClusters = {} =>
          /\ \A i \in DOMAIN slots : slots[i].ret = <<>>
          /\ DropNone(results) = <<>>
          /\ PrintedResults = <<>>

\* a run over empty clusters only, with an element of four resolvable ids,
\* printed its (empty) list
C5_Witness ==
    /\ Reported
    /\ Len(all_vertices) > 0
    /\ NonEmptyClusters = {}
    /\ \E i \in DOMAIN slots : slots[i].center # <<>>

\* ------------------------------------------------------------------ C6
\* C6: an element without exactly 4 ids never raises out of its task, is
\* never assigned, gets exactly one diagnostic once its task has ended, and
\* the results of the run are those of the run without such elements.
C6_InvalidElementSkipped ==
    /\ \A i \in DOMAIN slots :
          ~HasFourIds(i) =>
              /\ slots[i].state # "raised"
              /\ slots[i].ret = <<>>
              /\ DiagCount(i) = IF slots[i].state = "returned" THEN 1 ELSE 0
    /\ \A i \in DOMAIN slots : HasFourIds(i) => DiagCount(i) = 0
    /\ (dispatched /\ exitStatus = 1) =>
          \E i \in DOMAIN slots : HasFourIds(i) /\ slots[i].state = "raised"
    /\ Reported =>
          results = DropNone(SequentialReturns(
                        SelectSeq(elements, LAMBDA e : Len(e[2]) = TetraNodes)))

\* a run with an element of other than 4 ids printed a result for another
C6_Witness ==
    /\ Reported
    /\ exitStatus = 0
    /\ results # <<>>
    /\ \E i \in DOMAIN slots : ~HasFourIds(i) /\ DiagCount(i) = 1

\* ------------------------------------------------------------------ C7
\* C7 as claimed: every fatal condition ends the run with a non-success
\* exit status.
C7_FatalExitsNonSuccess ==
    fault # "none" => (pc = "exited" /\ exitStatus # 0)

\* C7 amended: a missing mesh file or folder is caught, reported on stdout
\* and ends the run with status 0; an unreadable or malformed mesh file
\* raises out of main, with a traceback and status 1; in both cases before
\* any index is built or task dispatched.
C7_FatalHandling ==
    /\ fault \in {"mesh_missing", "folder_missing"} =>
          /\ pc = "exited"
          /\ exitStatus = 0
          /\ stdout # <<>> /\ stdout[Len(stdout)][1] = "error"
          /\ stderr = <<>>
    /\ fault \in {"mesh_unreadable", "mesh_malformed"} =>
          /\ pc = "exited"
          /\ exitStatus = 1
          /\ stderr # <<>>
    /\ fault # "none" => ~treesBuilt /\ ~dispatched /\ results = <<>>

\* the mesh file was missing and the run has ended
C7_Witness == fault = "mesh_missing" /\ pc = "exited"

\* ------------------------------------------------------------------ C8
\* C8: once the folder has been listed and holds no cluster file, the run
\* has printed a count of 0 and returned with status 0, no index was built,
\* no task dispatched and no result printed.
C8_ZeroClustersEndsEarly ==
    (pc \notin {"start", "mesh_read"} /\ fault = "none" /\ Len(all_vertices) = 0) =>
        /\ pc = "exited"
        /\ exitStatus = 0
        /\ stderr = <<>>
        /\ \E k \in DOMAIN stdout : stdout[k] = Line("num_clusters", 0, 0)
        /\ ~treesBuilt
        /\ ~dispatched
        /\ kd_trees = <<>> /\ tasks = <<>> /\ slots = <<>>
        /\ results = <<>>
        /\ PrintedResults = <<>>

\* a mesh with elements was read and the folder held no cluster file
C8_Witness ==
    /\ pc = "exited"
    /\ fault = "none"
    /\ Len(elements) > 0
    /\ Len(all_vertices) = 0
    /\ \E k \in DOMAIN stdout : stdout[k][1] = "num_clusters"

\* ------------------------------------------------------------------ C9
\* C9 as claimed: an element of four distinct ids, one of them outside
\* 1..N, never yields an assignment.
C9_UnresolvableIdNeverAssigned ==
    \A i \in DOMAIN slots :
        (HasFourIds(i) /\ \E k \in DOMAIN elements[i][2] :
                              elements[i][2][k] \notin 1..num_nodes)
            => slots[i].ret = <<>>

\* ------------------------------------------------------------------ C10
\* the nodes whose parsed id field is id
NodesWithId(id) == {k \in DOMAIN nodes : nodes[k][1] = id}

NodeWithId(id) == nodes[CHOOSE k \in NodesWithId(id) : TRUE]

\* C10 as claimed: for an element of four ids, each the id field of one
\* parsed node, the centre computed is the mean of the coordinates of the
\* nodes that carry those ids.
C10_CenterOfNamedNodes ==
    \A i \in DOMAIN slots :
        (/\ slots[i].state # "pending"
         /\ HasFourIds(i)
         /\ \A k \in DOMAIN elements[i][2] :
               Cardinality(NodesWithId(elements[i][2][k])) = 1)
            => slots[i].center
                  = Mean4([k \in 1..TetraNodes |->
                              Slice(NodeWithId(elements[i][2][k]), 1, 4)])

=============================================================================
